---- MODULE Spec2Model ----
(***************************************************************************)
(* Model of assists_model.c: the NBA assists projection (base blend, nine  *)
(* multiplicative adjusters, clamp, scale) and the interactive main()      *)
(* that reads one record from stdin, projects it and prints the report.    *)
(*                                                                         *)
(* The program computes in C double.  The model computes in a binary       *)
(* floating-point format with the same semantics as IEEE 754 (round to     *)
(* nearest, ties to even; gradual underflow; overflow to infinity; NaN),   *)
(* parameterised by the significand width Prec and the largest exponent    *)
(* ExpMax.  With Prec = 53 and ExpMax = 971 the format is C's double; the  *)
(* model runs it at Prec = 24, ExpMax = 104 (binary32), the widest format  *)
(* whose significand products still fit the model checker's integers.      *)
(***************************************************************************)
EXTENDS Integers, Naturals, Sequences, FiniteSets, TLC

(***************************************************************************)
(* Floating point numbers                                                  *)
(***************************************************************************)

\* Significand width in bits, and the largest exponent of the unit in the
\* last place: a finite number is (-1)^s * m * 2^e with 0 <= m < 2^Prec and
\* ExpMin <= e <= ExpMax.
Prec == 24
ExpMax == 104
ExpMin == 3 - ExpMax - 2 * Prec

NaN == [k |-> "nan", s |-> 0, m |-> 0, e |-> 0]
Inf(s) == [k |-> "inf", s |-> s, m |-> 0, e |-> 0]
Fin(s, m, e) == [k |-> "fin", s |-> s, m |-> m, e |-> e]
\* Zero carries no sign: the program never divides by a computed zero (its
\* only unguarded divisors are configuration literals), so the sign of a
\* zero cannot reach any result.
Zero == Fin(0, 0, ExpMin)
MaxFinite == Fin(0, 2^Prec - 1, ExpMax)

IsNaN(x) == x.k = "nan"
IsInf(x) == x.k = "inf"
IsFin(x) == x.k = "fin"
IsZero(x) == x.k = "fin" /\ x.m = 0

\* The number of bits of n (0 <= n < 2^31).
BitLen(n) == Cardinality({i \in 0..30 : 2^i <= n})

\* The operators below take their operands through a singleton set
\* ({x \in {a} : ...}): the operand is evaluated once, however often the
\* body uses it.

\* The number nearest to (-1)^s * (M + f) * 2^E, where 0 <= f < 1 and f > 0
\* iff sticky: round to nearest, ties to even, subnormal below ExpMin,
\* infinite above ExpMax.  When sticky, M has at least Prec + 2 bits.
RoundVal(s, M, E, sticky, bl) ==
    IF M = 0 THEN Zero
    ELSE LET e1 == IF E + bl - Prec > ExpMin THEN E + bl - Prec ELSE ExpMin
             sh == e1 - E
         IN  IF sh <= 0
             THEN IF e1 > ExpMax THEN Inf(s) ELSE Fin(s, M * 2^(0 - sh), e1)
             ELSE IF sh > bl THEN Zero
             ELSE LET q == M \div 2^sh
                      r == M % 2^sh
                      half == 2^(sh - 1)
                      up == IF r > half THEN 1
                            ELSE IF r < half THEN 0
                            ELSE IF sticky THEN 1
                            ELSE q % 2
                      m == q + up
                  IN  IF m = 0 THEN Zero
                      ELSE IF m = 2^Prec
                      THEN IF e1 + 1 > ExpMax THEN Inf(s)
                           ELSE Fin(s, 2^(Prec - 1), e1 + 1)
                      ELSE IF e1 > ExpMax THEN Inf(s) ELSE Fin(s, m, e1)
RoundPack(s, M, E, sticky) ==
    CHOOSE r \in {RoundVal(s, x, y, sticky, BitLen(x)) : x \in {M}, y \in {E}} : TRUE

\* An int converted to floating point (|n| < 2^30).
FromInt(n) == IF n < 0 THEN RoundPack(1, 0 - n, 0, FALSE) ELSE RoundPack(0, n, 0, FALSE)

NegVal(x) == IF x.k = "nan" \/ IsZero(x) THEN x ELSE [x EXCEPT !.s = 1 - x.s]
FNeg(a) == CHOOSE r \in {NegVal(x) : x \in {a}} : TRUE

\* |a| < |b| for finite a, b: both are normalised (m >= 2^(Prec-1)) unless
\* e = ExpMin, so magnitudes order as the pairs (e, m).
MagLt(a, b) == a.e < b.e \/ (a.e = b.e /\ a.m < b.m)

\* a < b on finite numbers
FinLt(a, b) ==
    IF a.s = 1 /\ b.s = 0 THEN TRUE
    ELSE IF a.s = 0 /\ b.s = 1 THEN FALSE
    ELSE IF a.s = 0 THEN MagLt(a, b) ELSE MagLt(b, a)

\* C's a < b: false when either operand is NaN
LtVal(a, b) ==
    IF IsNaN(a) \/ IsNaN(b) THEN FALSE
    ELSE IF IsInf(a) THEN a.s = 1 /\ ~(IsInf(b) /\ b.s = 1)
    ELSE IF IsInf(b) THEN b.s = 0
    ELSE FinLt(a, b)
FLt(a, b) == \E x \in {a}, y \in {b} : LtVal(x, y)

\* C's a == b
FEq(a, b) == \E x \in {a}, y \in {b} : ~IsNaN(x) /\ ~IsNaN(y) /\ x = y

FGt(a, b) == FLt(b, a)
FLe(a, b) == \E x \in {a}, y \in {b} : LtVal(x, y) \/ FEq(x, y)

\* a + b on finite nonzero numbers with a.e >= b.e.  Up to Guard bits of
\* shift the sum is exact; beyond, a is normalised, b is shifted right
\* under a sticky bit.  (Any Guard >= 3 gives the same sums.)
Guard == 4
AddOrdered(a, b) ==
    LET d == a.e - b.e
        g == IF d <= Guard THEN d ELSE Guard
        A == a.m * 2^g
        cut == d - g
        B == IF cut > 30 THEN 0 ELSE b.m \div 2^cut
        lost == IF cut > 30 THEN TRUE ELSE b.m % 2^cut # 0
        E == a.e - g
    IN  IF a.s = b.s THEN RoundPack(a.s, A + B, E, lost)
        ELSE IF A > B
             THEN IF lost THEN RoundPack(a.s, A - B - 1, E, TRUE)
                  ELSE RoundPack(a.s, A - B, E, FALSE)
        ELSE IF A < B THEN RoundPack(b.s, B - A, E, FALSE)
        ELSE Zero

\* C's a + b
AddVal(a, b) ==
    IF IsNaN(a) \/ IsNaN(b) THEN NaN
    ELSE IF IsInf(a) THEN (IF IsInf(b) /\ a.s # b.s THEN NaN ELSE a)
    ELSE IF IsInf(b) THEN b
    ELSE IF IsZero(a) THEN b
    ELSE IF IsZero(b) THEN a
    ELSE IF a.e >= b.e THEN AddOrdered(a, b) ELSE AddOrdered(b, a)
FAdd(a, b) == CHOOSE r \in {AddVal(x, y) : x \in {a}, y \in {b}} : TRUE

\* C's a - b
FSub(a, b) == CHOOSE r \in {AddVal(x, y) : x \in {a}, y \in {FNeg(b)}} : TRUE

\* The product of two significands, too wide for one integer, is formed in
\* two halves of SplitBits bits and cut to its leading 30 bits under a sticky
\* bit.  (Any SplitBits that keeps the partial products below 2^31 gives the
\* same products.)
SplitBits == 13
SplitBase == 2^SplitBits
MulFinite(a, b) ==
    LET s == IF a.s = b.s THEN 0 ELSE 1
        a1 == a.m \div SplitBase
        a0 == a.m % SplitBase
        b1 == b.m \div SplitBase
        b0 == b.m % SplitBase
        mid == a1 * b0 + a0 * b1
        low == a0 * b0 + (mid % SplitBase) * SplitBase
        lo == low % (SplitBase * SplitBase)
        hi == a1 * b1 + (mid \div SplitBase) + (low \div (SplitBase * SplitBase))
        total == IF hi > 0 THEN BitLen(hi) + 2 * SplitBits ELSE BitLen(lo)
        d == total - 30
    IN  IF d <= 0 THEN RoundPack(s, hi * SplitBase * SplitBase + lo, a.e + b.e, FALSE)
        ELSE RoundPack(s, hi * 2^(2 * SplitBits - d) + (lo \div 2^d),
                       a.e + b.e + d, lo % 2^d # 0)

\* C's a * b
MulVal(a, b) ==
    IF IsNaN(a) \/ IsNaN(b) THEN NaN
    ELSE IF IsInf(a) \/ IsInf(b)
         THEN IF IsZero(a) \/ IsZero(b) THEN NaN
              ELSE Inf(IF a.s = b.s THEN 0 ELSE 1)
    ELSE IF IsZero(a) \/ IsZero(b) THEN Zero
    ELSE MulFinite(a, b)
FMul(a, b) == CHOOSE r \in {MulVal(x, y) : x \in {a}, y \in {b}} : TRUE

\* Long division: n more quotient bits of r / d after the quotient q.
RECURSIVE DivBits(_, _, _, _)
DivBits(q, r, d, n) ==
    IF n = 0 THEN <<q, r>>
    ELSE CHOOSE qr \in
            {DivBits(q1, r1, d, n1) :
                q1 \in {IF 2 * r >= d THEN 2 * q + 1 ELSE 2 * q},
                r1 \in {IF 2 * r >= d THEN 2 * r - d ELSE 2 * r},
                n1 \in {n - 1}} : TRUE

\* a / b on finite nonzero numbers: both significands are brought to Prec
\* bits, and the quotient is developed to Prec + 2 bits and a sticky bit.
DivFinite(a, b) ==
    LET s == IF a.s = b.s THEN 0 ELSE 1
        la == Prec - BitLen(a.m)
        lb == Prec - BitLen(b.m)
        A == a.m * 2^la
        B == b.m * 2^lb
        qr == DivBits(A \div B, A % B, B, Prec + 2)
    IN  RoundPack(s, qr[1], (a.e - la) - (b.e - lb) - (Prec + 2), qr[2] # 0)

\* C's a / b (IEC 60559: x/0 is infinite, 0/0 and inf/inf are NaN)
DivVal(a, b) ==
    IF IsNaN(a) \/ IsNaN(b) THEN NaN
    ELSE IF IsInf(a) THEN (IF IsInf(b) THEN NaN ELSE Inf(IF a.s = b.s THEN 0 ELSE 1))
    ELSE IF IsInf(b) THEN Zero
    ELSE IF IsZero(b) THEN (IF IsZero(a) THEN NaN ELSE Inf(IF a.s = b.s THEN 0 ELSE 1))
    ELSE IF IsZero(a) THEN Zero
    ELSE DivFinite(a, b)
FDiv(a, b) == CHOOSE r \in {DivVal(x, y) : x \in {a}, y \in {b}} : TRUE

\* The value of the decimal literal n/d (n, d < 2^Prec): the nearest number.
Lit(n, d) == FDiv(FromInt(n), FromInt(d))

One == FromInt(1)


(***************************************************************************)
(* Tunable weights and caps (the constants of the source, lines 25-47)     *)
(***************************************************************************)

\* The configuration as the source sets it.
SourceConfig ==
    [W_BASE_LINE |-> Lit(55, 100),
     W_BASE_SEASON_AVG |-> Lit(45, 100),
     W_HOME_AWAY |-> Lit(3, 100),
     W_GAME_TOTAL |-> Lit(5, 100),
     W_TEAM_TOTAL |-> Lit(10, 100),
     W_DEF_AST_ALLOWED |-> Lit(12, 100),
     W_PACE |-> Lit(6, 100),
     W_RECENT_FORM |-> Lit(8, 100),
     W_MINUTES_TREND |-> Lit(10, 100),
     W_BACK_TO_BACK |-> Lit(3, 100),
     W_POTENTIAL_AST |-> Lit(14, 100),
     LEAGUE_AVG_GAME_TOTAL |-> Lit(2290, 10),
     LEAGUE_AVG_TEAM_TOTAL |-> Lit(1145, 10),
     LEAGUE_AVG_PACE |-> Lit(995, 10),
     LEAGUE_AVG_AST_ALLOWED |-> Lit(250, 10),
     MULT_MIN |-> Lit(70, 100),
     MULT_MAX |-> Lit(140, 100)]

(***************************************************************************)
(* Helpers and model functions                                             *)
(***************************************************************************)

clampVal(x, lo, hi) == IF FLt(x, lo) THEN lo ELSE IF FGt(x, hi) THEN hi ELSE x
clamp(x, lo, hi) == CHOOSE r \in {clampVal(v, lo, hi) : v \in {x}} : TRUE

base_assists(in, cfg) ==
    FAdd(FMul(cfg.W_BASE_LINE, in.line_ast),
         FMul(cfg.W_BASE_SEASON_AVG, in.season_avg_ast))

m_homeaway(in, cfg) ==
    IF in.is_home # 0 THEN FAdd(One, cfg.W_HOME_AWAY) ELSE FSub(One, cfg.W_HOME_AWAY)

m_game_total(in, cfg) ==
    LET rel == FDiv(FSub(in.game_total_ou, cfg.LEAGUE_AVG_GAME_TOTAL),
                    cfg.LEAGUE_AVG_GAME_TOTAL)
    IN  FAdd(One, FMul(rel, cfg.W_GAME_TOTAL))

m_team_total(in, cfg) ==
    LET rel == FDiv(FSub(in.team_total_ou, cfg.LEAGUE_AVG_TEAM_TOTAL),
                    cfg.LEAGUE_AVG_TEAM_TOTAL)
    IN  FAdd(One, FMul(rel, cfg.W_TEAM_TOTAL))

\* m_def_ast with the deviation taken the wrong way round.
m_def_ast_Reversed(in, cfg) ==
    IF FLe(cfg.LEAGUE_AVG_AST_ALLOWED, Zero) THEN One
    ELSE LET rel == FDiv(FSub(cfg.LEAGUE_AVG_AST_ALLOWED, in.opp_ast_allowed),
                         cfg.LEAGUE_AVG_AST_ALLOWED)
         IN  FAdd(One, FMul(rel, cfg.W_DEF_AST_ALLOWED))

m_def_ast(in, cfg) ==
    IF FLe(cfg.LEAGUE_AVG_AST_ALLOWED, Zero) THEN One
    ELSE LET rel == FDiv(FSub(in.opp_ast_allowed, cfg.LEAGUE_AVG_AST_ALLOWED),
                         cfg.LEAGUE_AVG_AST_ALLOWED)
         IN  FAdd(One, FMul(rel, cfg.W_DEF_AST_ALLOWED))

m_pace(in, cfg) ==
    IF FLe(cfg.LEAGUE_AVG_PACE, Zero) THEN One
    ELSE LET rel == FDiv(FSub(in.matchup_pace, cfg.LEAGUE_AVG_PACE),
                         cfg.LEAGUE_AVG_PACE)
         IN  FAdd(One, FMul(rel, cfg.W_PACE))

\* m_recent guarding only a negative season average.
m_recent_StrictGuard(in, cfg) ==
    IF FEq(cfg.W_RECENT_FORM, Zero) \/ FLt(in.season_avg_ast, Zero) THEN One
    ELSE LET rel == FDiv(FSub(in.recent_avg_ast, in.season_avg_ast),
                         in.season_avg_ast)
         IN  FAdd(One, FMul(rel, cfg.W_RECENT_FORM))

m_recent(in, cfg) ==
    IF FEq(cfg.W_RECENT_FORM, Zero) \/ FLe(in.season_avg_ast, Zero) THEN One
    ELSE LET rel == FDiv(FSub(in.recent_avg_ast, in.season_avg_ast),
                         in.season_avg_ast)
         IN  FAdd(One, FMul(rel, cfg.W_RECENT_FORM))

m_minutes(in, cfg) ==
    IF FEq(cfg.W_MINUTES_TREND, Zero) \/ FLe(in.season_avg_minutes, Zero) THEN One
    ELSE LET rel == FDiv(FSub(in.expected_minutes, in.season_avg_minutes),
                         in.season_avg_minutes)
         IN  FAdd(One, FMul(rel, cfg.W_MINUTES_TREND))

\* m_b2b without the penalty.
m_b2b_NoPenalty(in, cfg) == One

\* m_b2b without the test of the weight's sign.
m_b2b_Unguarded(in, cfg) ==
    IF in.is_back_to_back # 0 THEN FSub(One, cfg.W_BACK_TO_BACK) ELSE One

m_b2b(in, cfg) ==
    IF in.is_back_to_back # 0 /\ FGt(cfg.W_BACK_TO_BACK, Zero)
    THEN FSub(One, cfg.W_BACK_TO_BACK)
    ELSE One

\* m_potential_assists taking the potential for the expected assists.
m_potential_assists_NoConversion(in, cfg) ==
    IF FEq(cfg.W_POTENTIAL_AST, Zero) \/ FLe(in.season_avg_ast, Zero) THEN One
    ELSE LET expected_actual == in.last5_potential_ast
             rel == FDiv(FSub(expected_actual, in.season_avg_ast), in.season_avg_ast)
         IN  FAdd(One, FMul(rel, cfg.W_POTENTIAL_AST))

m_potential_assists(in, cfg) ==
    IF FEq(cfg.W_POTENTIAL_AST, Zero) \/ FLe(in.season_avg_ast, Zero) THEN One
    ELSE LET expected_actual == FMul(in.last5_potential_ast, in.last5_conversion)
             rel == FDiv(FSub(expected_actual, in.season_avg_ast), in.season_avg_ast)
         IN  FAdd(One, FMul(rel, cfg.W_POTENTIAL_AST))

\* The product without its last multiplier.
uncapped_product_Missing(o) ==
    FMul(FMul(FMul(FMul(FMul(FMul(FMul(
        o.m_homeaway, o.m_game_total), o.m_team_total), o.m_def_ast),
        o.m_pace), o.m_recent), o.m_minutes), o.m_b2b)

\* The product of the nine multipliers of an Output, in the source's order.
uncapped_product(o) ==
    FMul(FMul(FMul(FMul(FMul(FMul(FMul(FMul(
        o.m_homeaway, o.m_game_total), o.m_team_total), o.m_def_ast),
        o.m_pace), o.m_recent), o.m_minutes), o.m_b2b), o.m_potential)

\* The ten values project() computes from the input alone.
factors(in, cfg) ==
    [base_assists |-> base_assists(in, cfg),
     m_homeaway |-> m_homeaway(in, cfg),
     m_game_total |-> m_game_total(in, cfg),
     m_team_total |-> m_team_total(in, cfg),
     m_def_ast |-> m_def_ast(in, cfg),
     m_pace |-> m_pace(in, cfg),
     m_recent |-> m_recent(in, cfg),
     m_minutes |-> m_minutes(in, cfg),
     m_b2b |-> m_b2b(in, cfg),
     m_potential |-> m_potential_assists(in, cfg)]

\* The Output, given its factors f, their product u and its clamped value c.
finish(f, u, c) ==
    [base_assists |-> f.base_assists,
     m_homeaway |-> f.m_homeaway,
     m_game_total |-> f.m_game_total,
     m_team_total |-> f.m_team_total,
     m_def_ast |-> f.m_def_ast,
     m_pace |-> f.m_pace,
     m_recent |-> f.m_recent,
     m_minutes |-> f.m_minutes,
     m_b2b |-> f.m_b2b,
     m_potential |-> f.m_potential,
     uncapped_multiplier |-> u,
     final_multiplier |-> c,
     projection |-> FMul(f.base_assists, c)]

capped(f, u, cfg) ==
    CHOOSE o \in {finish(f, u, c) : c \in {clamp(u, cfg.MULT_MIN, cfg.MULT_MAX)}} : TRUE
combined(f, cfg) ==
    CHOOSE o \in {capped(f, u, cfg) : u \in {uncapped_product(f)}} : TRUE
project(in, cfg) ==
    CHOOSE o \in {combined(f, cfg) : f \in {factors(in, cfg)}} : TRUE

(***************************************************************************)
(* I/O                                                                     *)
(***************************************************************************)

\* printf's "%.<digits>f" of x: the decimal nearest to x (ties to even), as
\* the integer v = |x| * 10^digits rounded, under x's sign.  A number too
\* wide for the model's integers is reported as "wide".
Printed(k, s, v) == [k |-> k, s |-> s, v |-> v]
RoundQuot(q, r, half, below) ==
    IF r > half THEN q + 1
    ELSE IF r < half THEN q
    ELSE IF below THEN q + 1
    ELSE q + (q % 2)
FmtFixed(x, digits) ==
    IF IsNaN(x) THEN Printed("nan", 0, 0)
    ELSE IF IsInf(x) THEN Printed("inf", x.s, 0)
    ELSE LET N == 10^digits
             P1 == (x.m \div SplitBase) * N
             P0 == (x.m % SplitBase) * N
             k == 0 - x.e
         IN  IF k <= 0
             THEN IF BitLen(x.m) + x.e + BitLen(N) > 30 THEN Printed("wide", x.s, 0)
                  ELSE Printed("num", x.s, x.m * 2^x.e * N)
             ELSE IF k >= SplitBits
             THEN LET T == P1 + (P0 \div SplitBase)
                      f == P0 % SplitBase
                      j == k - SplitBits
                  IN  IF j > 30 THEN Printed("num", x.s, 0)
                      ELSE IF j = 0
                      THEN Printed("num", x.s, RoundQuot(T, f, SplitBase \div 2, FALSE))
                      ELSE Printed("num", x.s,
                                   RoundQuot(T \div 2^j, T % 2^j, 2^(j - 1), f > 0))
             ELSE IF BitLen(P1) + SplitBits - k > 30 THEN Printed("wide", x.s, 0)
                  ELSE Printed("num", x.s,
                               RoundQuot(P1 * 2^(SplitBits - k) + (P0 \div 2^k),
                                         P0 % 2^k, 2^(k - 1), FALSE))

\* The report: every number as printed.
print_output(in, o, cfg) ==
    [player_name |-> in.player_name,
     base_assists |-> FmtFixed(o.base_assists, 2),
     m_homeaway |-> FmtFixed(o.m_homeaway, 4),
     m_game_total |-> FmtFixed(o.m_game_total, 4),
     m_team_total |-> FmtFixed(o.m_team_total, 4),
     m_def_ast |-> FmtFixed(o.m_def_ast, 4),
     m_pace |-> FmtFixed(o.m_pace, 4),
     m_recent |-> FmtFixed(o.m_recent, 4),
     m_minutes |-> FmtFixed(o.m_minutes, 4),
     m_b2b |-> FmtFixed(o.m_b2b, 4),
     m_potential |-> FmtFixed(o.m_potential, 4),
     uncapped_multiplier |-> FmtFixed(o.uncapped_multiplier, 4),
     final_multiplier |-> FmtFixed(o.final_multiplier, 4),
     mult_min |-> FmtFixed(cfg.MULT_MIN, 2),
     mult_max |-> FmtFixed(cfg.MULT_MAX, 2),
     projection |-> FmtFixed(o.projection, 2)]

(***************************************************************************)
(* main(): the state                                                       *)
(***************************************************************************)

VARIABLES
    pc,       \* where main() stands: "name", the field the next scanf reads,
              \* "project", "print" or "done"
    cfg,      \* the static const configuration
    in,       \* Inputs in
    out,      \* Output out
    report,   \* what print_output has written
    log       \* the calls main() has made so far, in order

vars == <<pc, cfg, in, out, report, log>>

\* The fields main() reads with scanf, in the order of its prompts.
ScanOrder ==
    <<"line_ast", "season_avg_ast", "is_home", "game_total_ou", "team_total_ou",
      "opp_ast_allowed", "matchup_pace", "recent_avg_ast", "season_avg_minutes",
      "expected_minutes", "is_back_to_back", "last5_potential_ast",
      "last5_conversion">>

\* main() without its last scanf.
AfterScan_SkipLast(i) == IF i < Len(ScanOrder) - 1 THEN ScanOrder[i + 1] ELSE "project"

\* The successor of statement i in main(): the next scanf, or the call of
\* project() after the last one.
AfterScan(i) == IF i < Len(ScanOrder) THEN ScanOrder[i + 1] ELSE "project"

\* The number just above a positive normal number x.
Above(x) == Fin(x.s, x.m + 1, x.e)

\* An Inputs record from its parts: the flags, the line, the market context
\* (game total, team total, opponent assists allowed, pace), the form
\* (season average, recent average, last-5 potential, last-5 conversion) and
\* the minutes (season, expected).
MakeInputs(name, home, b2b, line, market, form, minutes) ==
    [player_name |-> name,
     line_ast |-> line,
     season_avg_ast |-> form[1],
     is_home |-> home,
     game_total_ou |-> market[1],
     team_total_ou |-> market[2],
     opp_ast_allowed |-> market[3],
     matchup_pace |-> market[4],
     recent_avg_ast |-> form[2],
     season_avg_minutes |-> minutes[1],
     expected_minutes |-> minutes[2],
     is_back_to_back |-> b2b,
     last5_potential_ast |-> form[3],
     last5_conversion |-> form[4]]

Names == {"Player"}

\* Before the first scanf the automatic struct holds nothing the model reads:
\* every field is written (or left indeterminate, see Scan) before project().
BlankInputs ==
    MakeInputs("", 0, 0, Zero, <<Zero, Zero, Zero, Zero>>,
               <<Zero, Zero, Zero, Zero>>, <<Zero, Zero>>)
BlankOutput ==
    [base_assists |-> Zero, m_homeaway |-> Zero, m_game_total |-> Zero,
     m_team_total |-> Zero, m_def_ast |-> Zero, m_pace |-> Zero,
     m_recent |-> Zero, m_minutes |-> Zero, m_b2b |-> Zero,
     m_potential |-> Zero, uncapped_multiplier |-> Zero,
     final_multiplier |-> Zero, projection |-> Zero]
BlankReport == print_output(BlankInputs, BlankOutput, SourceConfig)

\* The values a scanf of the interactive run stores, per field.
ScanVals(f) ==
    CASE f = "line_ast" -> {Lit(50, 10)}
      [] f = "season_avg_ast" -> {Lit(50, 10), Lit(20, 10)}
      [] f = "is_home" -> {0, 1}
      [] f = "game_total_ou" -> {Lit(2290, 10), MaxFinite}
      [] f = "team_total_ou" -> {Lit(1145, 10), MaxFinite}
      [] f = "opp_ast_allowed" -> {Lit(250, 10)}
      [] f = "matchup_pace" -> {Lit(995, 10)}
      [] f = "recent_avg_ast" -> {Lit(50, 10), FromInt(-23)}
      [] f = "season_avg_minutes" -> {FromInt(32)}
      [] f = "expected_minutes" -> {FromInt(32)}
      [] f = "is_back_to_back" -> {0, 1}
      [] f = "last5_potential_ast" -> {FromInt(9)}
      [] f = "last5_conversion" -> {Lit(5556, 10000), Lit(5, 10)}

\* A field whose scanf converted nothing is never written: project() then
\* reads an indeterminate value, which may be any value of the field's type.
Indeterminate(f) == ScanVals(f)

(***************************************************************************)
(* main(): the steps                                                       *)
(***************************************************************************)

Init ==
    /\ pc = "name"
    /\ cfg = SourceConfig
    /\ in = BlankInputs
    /\ out = BlankOutput
    /\ report = BlankReport
    /\ log = <<>>

\* fgets(namebuf): a line is read and becomes the player's name, or the
\* input is at its end and main() returns 0.
ReadName ==
    /\ pc = "name"
    /\ log' = Append(log, "name")
    /\ \/ \E n \in Names :
            /\ in' = [in EXCEPT !.player_name = n]
            /\ pc' = ScanOrder[1]
       \/ /\ in' = in
          /\ pc' = "done"
    /\ UNCHANGED <<cfg, out, report>>

\* The i-th scanf: it stores a converted value, or converts nothing and
\* leaves the field as it was; its result is not looked at either way.
Scan(i) ==
    /\ pc = ScanOrder[i]
    /\ \/ \E v \in ScanVals(ScanOrder[i]) : in' = [in EXCEPT ![ScanOrder[i]] = v]
       \/ \E g \in Indeterminate(ScanOrder[i]) : in' = [in EXCEPT ![ScanOrder[i]] = g]
    /\ pc' = AfterScan(i)
    /\ log' = Append(log, ScanOrder[i])
    /\ UNCHANGED <<cfg, out, report>>

\* Output out = project(&in)
CallProject ==
    /\ pc = "project"
    /\ out' = project(in, cfg)
    /\ pc' = "print"
    /\ log' = Append(log, "project")
    /\ UNCHANGED <<cfg, in, report>>

\* print_output(&in, &out); return 0
PrintOutput ==
    /\ pc = "print"
    /\ report' = print_output(in, out, cfg)
    /\ pc' = "done"
    /\ log' = Append(log, "print")
    /\ UNCHANGED <<cfg, in, out>>

Next ==
    \/ ReadName
    \/ \E i \in 1..Len(ScanOrder) : Scan(i)
    \/ CallProject
    \/ PrintOutput

Spec == Init /\ [][Next]_vars

(***************************************************************************)
(* project() over edited configurations and a wider range of records       *)
(***************************************************************************)

\* The weights of the nine adjusters.
Weights ==
    {"W_HOME_AWAY", "W_GAME_TOTAL", "W_TEAM_TOTAL", "W_DEF_AST_ALLOWED", "W_PACE",
     "W_RECENT_FORM", "W_MINUTES_TREND", "W_BACK_TO_BACK", "W_POTENTIAL_AST"}
Baselines ==
    {"LEAGUE_AVG_GAME_TOTAL", "LEAGUE_AVG_TEAM_TOTAL", "LEAGUE_AVG_PACE",
     "LEAGUE_AVG_AST_ALLOWED"}

\* The source's configuration with one constant edited ("tweak to taste",
\* "edit as you see fit"): a weight switched off, a baseline zeroed or made
\* negative, the back-to-back weight made negative or larger than 1.
EditedConfigs ==
    {[SourceConfig EXCEPT ![w] = Zero] : w \in Weights}
    \cup {[SourceConfig EXCEPT ![b] = Zero] : b \in Baselines}
    \cup {[SourceConfig EXCEPT ![b] = FNeg(SourceConfig[b])] : b \in Baselines}
    \cup {[SourceConfig EXCEPT !.W_BACK_TO_BACK = v] : v \in {FNeg(Lit(3, 100)), FromInt(2)}}

FlagProfiles == {0, 1} \X {0, 1, 2}

MarketNeutral == <<Lit(2290, 10), Lit(1145, 10), Lit(250, 10), Lit(995, 10)>>
MarketProfiles ==
    {MarketNeutral,
     <<MaxFinite, MaxFinite, Lit(250, 10), Lit(995, 10)>>,
     <<Inf(0), Lit(1145, 10), Lit(250, 10), Lit(995, 10)>>,
     <<Lit(2290, 10), Lit(1145, 10), Above(Lit(250, 10)), Lit(995, 10)>>,
     <<Lit(2290, 10), Lit(1145, 10), FromInt(31), FromInt(105)>>,
     <<Zero, Zero, Zero, Zero>>}

FormExample == <<Lit(50, 10), Lit(50, 10), Lit(90, 10), Lit(5556, 10000)>>
FormProfiles ==
    {FormExample,
     <<Lit(50, 10), Lit(50, 10), FromInt(10), Lit(5, 10)>>,
     <<FromInt(2), FromInt(2), FromInt(4), Lit(5, 10)>>,
     <<FromInt(2), FromInt(-23), FromInt(4), Lit(5, 10)>>,
     <<FromInt(2), FromInt(9), FromInt(14), Lit(6, 10)>>,
     <<Zero, FromInt(3), FromInt(4), Lit(5, 10)>>,
     <<FromInt(-1), FromInt(3), FromInt(9), Lit(5, 10)>>,
     <<Inf(0), Inf(0), Inf(0), One>>,
     <<Lit(50, 10), FromInt(7), Inf(0), Zero>>}

MinuteProfiles ==
    {<<FromInt(32), FromInt(32)>>,
     <<FromInt(32), Above(FromInt(32))>>,
     <<FromInt(32), FromInt(36)>>,
     <<Zero, FromInt(30)>>,
     <<Zero, Zero>>,
     <<Inf(0), Inf(0)>>,
     <<FromInt(-3), FromInt(30)>>}

\* The records project() is applied to under the source's configuration ...
Records ==
    {MakeInputs("Player", fl[1], fl[2], Lit(50, 10), mk, fm, mn) :
        fl \in FlagProfiles, mk \in MarketProfiles, fm \in FormProfiles,
        mn \in MinuteProfiles}

\* ... and under each edited configuration.
CoreRecords ==
    {MakeInputs("Player", fl[1], fl[2], Lit(50, 10), mk, fm, mn) :
        fl \in FlagProfiles,
        mk \in {MarketNeutral, <<Inf(0), Lit(1145, 10), Lit(250, 10), Lit(995, 10)>>,
                <<Zero, Zero, Zero, Zero>>},
        fm \in {FormExample, <<Zero, FromInt(3), FromInt(4), Lit(5, 10)>>},
        mn \in {<<FromInt(32), FromInt(32)>>, <<FromInt(32), FromInt(36)>>}}

\* main() has read the name and the thirteen values and is about to call
\* project().
InitEval ==
    /\ pc = "project"
    /\ \/ cfg = SourceConfig /\ in \in Records
       \/ cfg \in EditedConfigs /\ in \in CoreRecords
    /\ out = BlankOutput
    /\ report = BlankReport
    /\ log = <<"name">> \o ScanOrder

NextEval == CallProject \/ PrintOutput

SpecEval == InitEval /\ [][NextEval]_vars

(***************************************************************************)
(* Properties                                                              *)
(***************************************************************************)

\* project() has returned: out holds its result.
Returned == \E i \in 1..Len(log) : log[i] = "project"

PlusInf(x) == IsInf(x) /\ x.s = 0

\* Every contextual input has its neutral value (C's ==).
Neutral(i, c) ==
    /\ FEq(i.game_total_ou, c.LEAGUE_AVG_GAME_TOTAL)
    /\ FEq(i.team_total_ou, c.LEAGUE_AVG_TEAM_TOTAL)
    /\ FEq(i.opp_ast_allowed, c.LEAGUE_AVG_AST_ALLOWED)
    /\ FEq(i.matchup_pace, c.LEAGUE_AVG_PACE)
    /\ FEq(i.recent_avg_ast, i.season_avg_ast)
    /\ FEq(i.expected_minutes, i.season_avg_minutes)
    /\ i.is_back_to_back = 0
    /\ FEq(FMul(i.last5_potential_ast, i.last5_conversion), i.season_avg_ast)

\* 1 + w at home, 1 - w away
HomeAwayFactor(i, c) ==
    IF i.is_home # 0 THEN FAdd(One, c.W_HOME_AWAY) ELSE FSub(One, c.W_HOME_AWAY)

\* C1 (as claimed): for every input record, the final_multiplier project()
\* returns lies in [MULT_MIN, MULT_MAX], inclusive.
C1_FinalWithinCaps ==
    Returned => FLe(cfg.MULT_MIN, out.final_multiplier)
                /\ FLe(out.final_multiplier, cfg.MULT_MAX)

\* C2 (as claimed): with every contextual input neutral, for either value of
\* is_home, uncapped_multiplier is exactly 1.0 and projection is base_value.
C2_NeutralIsIdentity ==
    (Returned /\ cfg = SourceConfig /\ Neutral(in, cfg)) =>
        /\ out.uncapped_multiplier = One
        /\ out.projection = out.base_assists

\* C2 (amended): under the source's configuration, with every contextual
\* input neutral, the eight factors other than home/away are exactly 1.0
\* (a factor whose own baseline, season_avg_ast or season_avg_minutes, is
\* +infinity is NaN instead), and when both baselines are not +infinity
\* uncapped_multiplier and final_multiplier equal the home/away factor
\* (1 + w at home, 1 - w away) and projection is base_value times it.
C2_NeutralGivesHomeAway ==
    (Returned /\ cfg = SourceConfig /\ Neutral(in, cfg)) =>
        /\ out.m_game_total = One
        /\ out.m_team_total = One
        /\ out.m_def_ast = One
        /\ out.m_pace = One
        /\ out.m_b2b = One
        /\ out.m_recent = (IF PlusInf(in.season_avg_ast) THEN NaN ELSE One)
        /\ out.m_potential = (IF PlusInf(in.season_avg_ast) THEN NaN ELSE One)
        /\ out.m_minutes = (IF PlusInf(in.season_avg_minutes) THEN NaN ELSE One)
        /\ (~PlusInf(in.season_avg_ast) /\ ~PlusInf(in.season_avg_minutes)) =>
              /\ out.uncapped_multiplier = HomeAwayFactor(in, cfg)
              /\ out.final_multiplier = HomeAwayFactor(in, cfg)
              /\ out.projection = FMul(out.base_assists, HomeAwayFactor(in, cfg))

\* C2 witness: a neutral away record has been projected: 1 - w, not 1.0.
C2_Witness ==
    /\ Returned /\ cfg = SourceConfig /\ Neutral(in, cfg)
    /\ in.is_home = 0
    /\ IsFin(in.season_avg_ast) /\ FGt(in.season_avg_ast, Zero)
    /\ IsFin(in.season_avg_minutes) /\ FGt(in.season_avg_minutes, Zero)
    /\ out.uncapped_multiplier = FSub(One, cfg.W_HOME_AWAY)
    /\ FLt(out.projection, out.base_assists)

\* C3 (as claimed): a relative-deviation factor whose baseline is zero is
\* exactly 1.0 (nothing is divided by zero), whatever the configuration.
C3_ZeroBaselineIsNeutral ==
    Returned =>
        /\ IsZero(cfg.LEAGUE_AVG_GAME_TOTAL) => out.m_game_total = One
        /\ IsZero(cfg.LEAGUE_AVG_TEAM_TOTAL) => out.m_team_total = One
        /\ IsZero(cfg.LEAGUE_AVG_AST_ALLOWED) => out.m_def_ast = One
        /\ IsZero(cfg.LEAGUE_AVG_PACE) => out.m_pace = One
        /\ IsZero(in.season_avg_ast) => out.m_recent = One /\ out.m_potential = One
        /\ IsZero(in.season_avg_minutes) => out.m_minutes = One

\* C4 (as claimed): a factor whose weight is 0 is exactly 1.0, whatever the
\* observed input.
C4_ZeroWeightIsNeutral ==
    Returned =>
        /\ IsZero(cfg.W_HOME_AWAY) => out.m_homeaway = One
        /\ IsZero(cfg.W_GAME_TOTAL) => out.m_game_total = One
        /\ IsZero(cfg.W_TEAM_TOTAL) => out.m_team_total = One
        /\ IsZero(cfg.W_DEF_AST_ALLOWED) => out.m_def_ast = One
        /\ IsZero(cfg.W_PACE) => out.m_pace = One
        /\ IsZero(cfg.W_RECENT_FORM) => out.m_recent = One
        /\ IsZero(cfg.W_MINUTES_TREND) => out.m_minutes = One
        /\ IsZero(cfg.W_BACK_TO_BACK) => out.m_b2b = One
        /\ IsZero(cfg.W_POTENTIAL_AST) => out.m_potential = One

\* The season averages the minutes factor is compared across.
SeasonVals == {fm[1] : fm \in FormProfiles} \cup {NaN, MaxFinite}

\* C5 (amended: the claim without its "only when", since a small enough
\* deviation of expected_minutes is rounded away and leaves the factor 1.0):
\* with season_avg_ast <= 0 the recent-form and potential factors are
\* exactly 1.0; the minutes factor is the same for every season_avg_ast, and
\* is exactly 1.0 when season_avg_minutes <= 0.
C5_NonPositiveBaselines ==
    Returned =>
        /\ FLe(in.season_avg_ast, Zero) => out.m_recent = One /\ out.m_potential = One
        /\ \A v \in SeasonVals :
              m_minutes([in EXCEPT !.season_avg_ast = v], cfg) = out.m_minutes
        /\ FLe(in.season_avg_minutes, Zero) => out.m_minutes = One

\* C5 (as claimed): ... and, with a non-zero weight and expected_minutes !=
\* season_avg_minutes, the minutes factor is 1.0 only when
\* season_avg_minutes <= 0.
C5_MinutesNeutralOnlyWhen ==
    /\ C5_NonPositiveBaselines
    /\ (/\ Returned
        /\ ~IsZero(cfg.W_MINUTES_TREND)
        /\ ~FEq(in.expected_minutes, in.season_avg_minutes)
        /\ out.m_minutes = One) => FLe(in.season_avg_minutes, Zero)

\* C5 witness: a record with season_avg_ast <= 0, a recent average and a
\* potential that differ from it, and season_avg_minutes <= 0 with other
\* expected minutes, has been projected.
C5_Witness ==
    /\ Returned
    /\ ~IsZero(cfg.W_RECENT_FORM) /\ ~IsZero(cfg.W_POTENTIAL_AST)
    /\ ~IsZero(cfg.W_MINUTES_TREND)
    /\ FLt(in.season_avg_ast, Zero)
    /\ FGt(in.recent_avg_ast, in.season_avg_ast)
    /\ FLt(in.season_avg_minutes, Zero)
    /\ FGt(in.expected_minutes, Zero)
    /\ out.m_recent = One /\ out.m_potential = One /\ out.m_minutes = One

\* The spec's second end-to-end example: away and on a back-to-back.
ExampleAway ==
    MakeInputs("Player", 0, 1, Lit(50, 10), MarketNeutral, FormExample,
               <<FromInt(32), FromInt(32)>>)

\* C6: for the away, back-to-back example under the source's configuration
\* project() returns base 5.0, an uncapped multiplier that prints as 0.9409,
\* the same final multiplier (no clamping), and a projection that prints as
\* 4.70.
C6_EndToEndAway ==
    (Returned /\ cfg = SourceConfig /\ in = ExampleAway) =>
        /\ out.base_assists = FromInt(5)
        /\ FmtFixed(out.uncapped_multiplier, 4) = Printed("num", 0, 9409)
        /\ out.final_multiplier = out.uncapped_multiplier
        /\ FmtFixed(out.projection, 2) = Printed("num", 0, 470)

\* C6 witness: main() has read the example, projected it and printed it.
C6_Witness ==
    /\ pc = "done" /\ cfg = SourceConfig /\ in = ExampleAway
    /\ report.uncapped_multiplier = Printed("num", 0, 9409)
    /\ report.projection = Printed("num", 0, 470)

\* The opponent rates a record's own is compared with.
OppVals ==
    {mk[3] : mk \in MarketProfiles}
    \cup {Inf(0), Inf(1), MaxFinite, FNeg(MaxFinite), NaN, FromInt(-200)}

\* factors a and b agree everywhere but in the opponent-allowed factor
SameButDefAst(a, b) == [a EXCEPT !.m_def_ast = One] = [b EXCEPT !.m_def_ast = One]

\* C7 (as claimed): with a positive baseline and weight, of two records that
\* differ only in opp_ast_allowed the one with the strictly larger rate gets
\* a strictly larger opponent-allowed factor, all else being identical.
C7_StrictlyMonotone ==
    (Returned /\ FGt(cfg.LEAGUE_AVG_AST_ALLOWED, Zero) /\ FGt(cfg.W_DEF_AST_ALLOWED, Zero)) =>
        \A v \in OppVals :
            FLt(in.opp_ast_allowed, v) =>
                \E f2 \in {factors([in EXCEPT !.opp_ast_allowed = v], cfg)} :
                    /\ FLt(out.m_def_ast, f2.m_def_ast)
                    /\ SameButDefAst(f2, factors(in, cfg))

\* C7 (amended): with a positive finite baseline and weight, of two records
\* that differ only in opp_ast_allowed the one with the strictly larger rate
\* gets a factor that is larger or equal (equal when the difference is
\* rounded away), all else being identical.
C7_Monotone ==
    (Returned /\ FGt(cfg.LEAGUE_AVG_AST_ALLOWED, Zero) /\ FGt(cfg.W_DEF_AST_ALLOWED, Zero)) =>
        \A v \in OppVals :
            FLt(in.opp_ast_allowed, v) =>
                \E f2 \in {factors([in EXCEPT !.opp_ast_allowed = v], cfg)} :
                    /\ FLe(out.m_def_ast, f2.m_def_ast)
                    /\ SameButDefAst(f2, factors(in, cfg))

\* C7 witness: a record at the baseline rate has been projected, and a
\* larger rate gives a strictly larger factor.
C7_Witness ==
    /\ Returned /\ cfg = SourceConfig
    /\ in.opp_ast_allowed = cfg.LEAGUE_AVG_AST_ALLOWED
    /\ out.m_def_ast = One
    /\ FLt(out.m_def_ast, m_def_ast([in EXCEPT !.opp_ast_allowed = FromInt(31)], cfg))

\* C8: the back-to-back factor is 1 - w when is_back_to_back is set and
\* w > 0, and exactly 1.0 otherwise; it is never above 1.0.
C8_BackToBackNeverAmplifies ==
    Returned =>
        /\ out.m_b2b = (IF in.is_back_to_back # 0 /\ FGt(cfg.W_BACK_TO_BACK, Zero)
                        THEN FSub(One, cfg.W_BACK_TO_BACK) ELSE One)
        /\ FLe(out.m_b2b, One)
        /\ in.is_back_to_back = 0 => out.m_b2b = One

\* C8 witness: a back-to-back record has been projected under a negative
\* weight, and its factor is 1.0.
C8_Witness ==
    /\ Returned
    /\ in.is_back_to_back # 0
    /\ FLt(cfg.W_BACK_TO_BACK, Zero)
    /\ out.m_b2b = One

\* The calls of a complete run.
ExpectedCalls ==
    <<"name", "line_ast", "season_avg_ast", "is_home", "game_total_ou",
      "team_total_ou", "opp_ast_allowed", "matchup_pace", "recent_avg_ast",
      "season_avg_minutes", "expected_minutes", "is_back_to_back",
      "last5_potential_ast", "last5_conversion", "project", "print">>

IsPrefix(s, t) == Len(s) <= Len(t) /\ \A i \in 1..Len(s) : s[i] = t[i]

\* The numeric and boolean values main() has read.
ValuesRead == {i \in 1..Len(log) : log[i] \notin {"name", "project", "print"}}

\* C9 (as claimed): project() is called after exactly twelve numeric/boolean
\* values have been read.
C9_TwelveValues == Returned => Cardinality(ValuesRead) = 12

\* C9 (amended): main() reads the name, then exactly thirteen values in
\* the order of the prompts, then calls project() once, then prints once;
\* nothing is read after project(), and main() ends after the print or, when
\* there is no name to read, at once.
C9_ThirteenValues ==
    /\ IsPrefix(log, ExpectedCalls)
    /\ Returned => Cardinality(ValuesRead) = 13
    /\ pc = "done" => Len(log) \in {1, Len(ExpectedCalls)}

\* C9 witness: a complete run
C9_Witness ==
    /\ pc = "done"
    /\ log = ExpectedCalls
    /\ report.player_name = "Player"

\* The product of the nine factor fields of an Output, each once.
ProductOfFields(o) ==
    FMul(FMul(FMul(FMul(FMul(FMul(FMul(FMul(
        o.m_homeaway, o.m_game_total), o.m_team_total), o.m_def_ast),
        o.m_pace), o.m_recent), o.m_minutes), o.m_b2b), o.m_potential)

\* C10: in the Output, uncapped_multiplier is the product of its nine factor
\* fields, projection is base_assists times final_multiplier, and
\* base_assists is W_BASE_LINE * line_ast + W_BASE_SEASON_AVG * season_avg_ast
\* (equal as values: a NaN equals a NaN).
C10_OutputConsistent ==
    Returned =>
        /\ out.uncapped_multiplier = ProductOfFields(out)
        /\ out.projection = FMul(out.base_assists, out.final_multiplier)
        /\ out.base_assists = FAdd(FMul(cfg.W_BASE_LINE, in.line_ast),
                                   FMul(cfg.W_BASE_SEASON_AVG, in.season_avg_ast))

\* C10 witness: a record whose nine factors are finite and whose product is
\* clamped has been projected.
C10_Witness ==
    /\ Returned
    /\ IsFin(out.uncapped_multiplier)
    /\ FGt(out.uncapped_multiplier, cfg.MULT_MAX)
    /\ out.final_multiplier = cfg.MULT_MAX
    /\ ~(out.m_potential = One)
    /\ IsFin(out.projection)

====
